---- MODULE Spec2Model ----
(***************************************************************************)
(* Grade-data normalisation and ingestion pipeline of CourseCounselorAgent *)
(*                                                                         *)
(*   Scripts/BoilerGrades2022Fall.py   per-term cleaning script            *)
(*   QueriableStorage/store_db.py      create_new_database (DedupLoader)   *)
(*                                                                         *)
(* SpecLoad  is the state machine of create_new_database.                  *)
(* SpecClean is the state machine of the per-term cleaning script.         *)
(***************************************************************************)
EXTENDS Integers, Sequences, FiniteSets, TLC

\* ------------------------------------------------------------------------
\* Bounds of the model
\* ------------------------------------------------------------------------
MaxRecords == 3

MaxRuns == 2

\* ------------------------------------------------------------------------
\* Values
\* ------------------------------------------------------------------------
\* JSON null / Python None / SQL NULL / pandas NaN in a text or number cell.
\* It differs from every text of the input domains below.
NULL == "<NULL>"

\* A JSON value held by the "Course Number" field: null, an integer, a
\* float (kept in tenths: n = 1015 is 101.5) or a string (its characters).
JNull == [t |-> "null", n |-> 0, s |-> <<>>]

JInt(n) == [t |-> "int", n |-> n, s |-> <<>>]

JFloat(tenths) == [t |-> "float", n |-> tenths, s |-> <<>>]

JStr(s) == [t |-> "str", n |-> 0, s |-> s]

Digits == <<"0", "1", "2", "3", "4", "5", "6", "7", "8", "9">>

IsDigit(c) == \E d \in 1..10 : Digits[d] = c

DigitVal(c) == (CHOOSE d \in 1..10 : Digits[d] = c) - 1

RECURSIVE DecimalValue(_)
DecimalValue(s) ==
    IF s = <<>> THEN 0
    ELSE 10 * DecimalValue(SubSeq(s, 1, Len(s) - 1)) + DigitVal(s[Len(s)])

\* Python int(x) of a non-None JSON value: [ok, v]; ok = FALSE is the
\* ValueError / TypeError that line 59 catches.
\*   int      -> itself
\*   float    -> truncated toward zero
\*   str      -> optional sign followed by one or more decimal digits,
\*               anything else raises ValueError (the texts of the input
\*               domain hold no blank and no underscore)
int(x) ==
    CASE x.t = "int"   -> [ok |-> TRUE, v |-> x.n]
      [] x.t = "float" -> [ok |-> TRUE,
                           v |-> IF x.n >= 0 THEN x.n \div 10
                                 ELSE -((-x.n) \div 10)]
      [] x.t = "str"   ->
            LET signed == x.s # <<>> /\ x.s[1] \in {"-", "+"}
                body   == IF signed THEN Tail(x.s) ELSE x.s
                mag    == DecimalValue(body)
            IN  IF body # <<>> /\ \A k \in 1..Len(body) : IsDigit(body[k])
                THEN [ok |-> TRUE,
                      v |-> IF signed /\ x.s[1] = "-" THEN -mag ELSE mag]
                ELSE [ok |-> FALSE, v |-> 0]
      [] OTHER         -> [ok |-> FALSE, v |-> 0]

\* ------------------------------------------------------------------------
\* Input domain of the loader: records of all_cleanedgrades.json
\* ------------------------------------------------------------------------
CourseNumbers ==
    { JNull, JInt(0), JInt(101), JStr(<<"1", "0", "1">>), JStr(<<"-", "5">>),
      JStr(<<"N", "/", "A">>), JFloat(1015) }

Instructors == {"Smith", NULL}

\* The fields of a record other than course number and instructor.
\* gpa_estimate_normalized is kept in tenths.
Section ==
    [Subject |-> "CS", Title |-> "Intro", Period |-> "Fall 2022",
     a_pct |-> 100, gpa |-> 40]

Variants ==
    { [Subject |-> "CS", Title |-> "Topics", Period |-> "Fall 2022",
       a_pct |-> 50,  gpa |-> 20],
      [Subject |-> "CS", Title |-> NULL,     Period |-> "Fall 2022",
       a_pct |-> 0,   gpa |-> 0] }

\* Sections whose record has no subject, or no academic period
NullVariants ==
    { [Subject |-> NULL, Title |-> "Intro", Period |-> "Fall 2022",
       a_pct |-> 100, gpa |-> 40],
      [Subject |-> "CS", Title |-> "Intro", Period |-> NULL,
       a_pct |-> 100, gpa |-> 40] }

MkRecord(cn, ins, v) ==
    [Subject |-> v.Subject, CourseNumber |-> cn, Title |-> v.Title,
     AcademicPeriod |-> v.Period, Instructor |-> ins,
     a_pct |-> v.a_pct, gpa_estimate_normalized |-> v.gpa]

\* Every course number and instructor with the fields of Section, and the
\* other variants of the fields for course number 101.
Records ==
    { MkRecord(cn, ins, Section) : cn \in CourseNumbers, ins \in Instructors }
    \cup { MkRecord(JInt(101), ins, v) : ins \in Instructors, v \in Variants }
    \cup { MkRecord(JInt(101), "Smith", v) : v \in NullVariants }

RECURSIVE SeqsUpTo(_, _)
SeqsUpTo(S, n) ==
    IF n = 0 THEN { <<>> }
    ELSE LET shorter == SeqsUpTo(S, n - 1)
         IN  shorter \cup { Append(q, x) : q \in { p \in shorter : Len(p) = n - 1 },
                                           x \in S }

Corpora == SeqsUpTo(Records, MaxRecords)

\* ------------------------------------------------------------------------
\* The store file grades_improved.db
\* ------------------------------------------------------------------------
\* exists: the file is there; table: it has the grades table; rows: the
\* committed rows of grades in rowid order; seq: sqlite_sequence of grades.
NoFile == [exists |-> FALSE, table |-> FALSE, rows |-> <<>>, seq |-> 0]

StaleRow ==
    [id |-> 7, subject |-> "OLD", course_number |-> 999, title |-> "Old",
     academic_period |-> "Fall 2016", instructor |-> "Jones",
     a_pct |-> 10, gpa_estimate_normalized |-> 10]

StaleStore == [exists |-> TRUE, table |-> TRUE, rows |-> <<StaleRow>>, seq |-> 7]

PriorStores == {NoFile, StaleStore}

VARIABLES
    pc,                         \* position in create_new_database
    jsonExists,                 \* all_cleanedgrades.json is there
    corpus,                     \* its content
    db,                         \* the store file as a reader sees it
    txn,                        \* rows inserted by the open transaction
    data,                       \* line 39
    i,                          \* index of the record the loop is at
    records_to_insert,          \* line 42
    seen_records_fingerprints,  \* line 45
    skipped_invalid_count,      \* line 47
    skipped_duplicate_count,    \* line 48
    out,                        \* what the run printed
    runs,                       \* number of runs started
    lastStore,                  \* the store the previous run left
    cpc,                        \* position in the cleaning script
    raw,                        \* the table as read from the extract
    df,                         \* the table the script works on
    col,                        \* index of the column the fill loop is at
    cleaned,                    \* the content of cleanedgrades5.json
    apc,                        \* position in CombineAllJSON.py
    files,                      \* cleanedgrades1.json .. cleanedgrades10.json
    file_i,                     \* the i of line 6
    combined_data,              \* line 3
    all_file,                   \* all_cleanedgrades.json as the script leaves it
    observed                    \* what the last query_gpa call met

loadVars ==
    <<pc, jsonExists, corpus, db, txn, data, i, records_to_insert,
      seen_records_fingerprints, skipped_invalid_count,
      skipped_duplicate_count, out, runs, lastStore>>

cleanVars == <<cpc, raw, df, col, cleaned>>

aggVars == <<apc, files, file_i, combined_data, all_file>>

readVars == <<observed>>

vars == <<loadVars, cleanVars, aggVars, readVars>>

\* os.remove(NEW_DB_FILE_PATH), line 18
RemoveKeepsFile(store) == store

os_remove(store) == NoFile

\* The natural key of a record, line 70
FingerprintNoInstructor(subject, course_num_int, academic_period, instructor) ==
    <<subject, course_num_int, academic_period, NULL>>

Fingerprint(subject, course_num_int, academic_period, instructor) ==
    <<subject, course_num_int, academic_period, instructor>>

\* line 72: is the record a duplicate of an earlier one
SeenNever(fingerprint, seen) == FALSE

Seen(fingerprint, seen) == fingerprint \in seen

\* lines 81-89
RecordTuple(record, course_num_int) ==
    [subject |-> record.Subject, course_number |-> course_num_int,
     title |-> record.Title, academic_period |-> record.AcademicPeriod,
     instructor |-> record.Instructor, a_pct |-> record.a_pct,
     gpa_estimate_normalized |-> record.gpa_estimate_normalized]

\* The constraints of the grades table, lines 26-34.
NotNullOkTitleOnly(t) == t.title # NULL

NotNullOk(t) ==
    /\ t.subject # NULL
    /\ t.title # NULL
    /\ t.academic_period # NULL

\* UNIQUE(subject, course_number, academic_period, instructor): SQLite
\* compares NULL as different from every value, NULL included.
UniqueOk(t, rows) ==
    \A k \in 1..Len(rows) :
        ~ ( /\ t.instructor # NULL
            /\ rows[k].instructor # NULL
            /\ rows[k].subject = t.subject
            /\ rows[k].course_number = t.course_number
            /\ rows[k].academic_period = t.academic_period
            /\ rows[k].instructor = t.instructor )

\* One INSERT of executemany: id INTEGER PRIMARY KEY AUTOINCREMENT
WithId(t, id) ==
    [id |-> id, subject |-> t.subject, course_number |-> t.course_number,
     title |-> t.title, academic_period |-> t.academic_period,
     instructor |-> t.instructor, a_pct |-> t.a_pct,
     gpa_estimate_normalized |-> t.gpa_estimate_normalized]

\* cursor.executemany(insert_query, tuples), line 101, on a table holding
\* rows with sqlite_sequence seq: the rows after it, and whether a
\* constraint failed (the statements before the failing one stay in the
\* open transaction).
RECURSIVE ExecuteMany(_, _, _)
ExecuteMany(tuples, rows, seq) ==
    IF tuples = <<>> THEN [ok |-> TRUE, rows |-> rows, seq |-> seq]
    ELSE LET t == Head(tuples)
         IN  IF NotNullOk(t) /\ UniqueOk(t, rows)
             THEN ExecuteMany(Tail(tuples), Append(rows, WithId(t, seq + 1)), seq + 1)
             ELSE [ok |-> FALSE, rows |-> rows, seq |-> seq]

\* ------------------------------------------------------------------------
\* create_new_database
\* ------------------------------------------------------------------------
\* The cleaning script is not running.
CleanIdle ==
    /\ cpc = "idle"
    /\ raw = <<>>
    /\ df = <<>>
    /\ col = 1
    /\ cleaned = <<>>

\* The aggregation script is not running.
AggIdle ==
    /\ apc = "idle"
    /\ files = <<>>
    /\ file_i = 1
    /\ combined_data = <<>>
    /\ all_file = [exists |-> FALSE, data |-> <<>>]

\* No query has been made.
ReadIdle ==
    observed = [at |-> "never", run |-> 0, exists |-> FALSE, table |-> FALSE,
                rows |-> <<>>, result |-> <<"none">>]

InitLocals ==
    /\ txn = <<>>
    /\ data = <<>>
    /\ i = 1
    /\ records_to_insert = <<>>
    /\ seen_records_fingerprints = {}
    /\ skipped_invalid_count = 0
    /\ skipped_duplicate_count = 0
    /\ out = <<>>

InitLoad ==
    /\ pc = "start"
    /\ jsonExists \in BOOLEAN
    /\ corpus \in (IF jsonExists THEN Corpora ELSE { <<>> })
    /\ db \in PriorStores
    /\ InitLocals
    /\ runs = 1
    /\ lastStore = db
    /\ CleanIdle
    /\ AggIdle
    /\ ReadIdle

\* os.path.exists(JSON_FILE_PATH), line 13
path_exists_always(present) == TRUE

path_exists(present) == present

\* lines 13-15
CheckJson ==
    /\ pc = "start"
    /\ IF path_exists(jsonExists)
       THEN pc' = "remove" /\ out' = out
       ELSE pc' = "nojson" /\ out' = Append(out, <<"json-not-found", 0>>)
    /\ UNCHANGED <<jsonExists, corpus, db, txn, data, i, records_to_insert,
                   seen_records_fingerprints, skipped_invalid_count,
                   skipped_duplicate_count, runs, lastStore>>
    /\ UNCHANGED <<cleanVars, aggVars, readVars>>

\* lines 17-18
RemoveDb ==
    /\ pc = "remove"
    /\ db' = (IF db.exists THEN os_remove(db) ELSE db)
    /\ pc' = "connect"
    /\ UNCHANGED <<jsonExists, corpus, txn, data, i, records_to_insert,
                   seen_records_fingerprints, skipped_invalid_count,
                   skipped_duplicate_count, out, runs, lastStore>>
    /\ UNCHANGED <<cleanVars, aggVars, readVars>>

\* lines 21-36: sqlite3.connect creates the file; CREATE TABLE is not run
\* inside a transaction by the sqlite3 module, so it is committed at once.
\* It raises when the table is already there.
Connect ==
    /\ pc = "connect"
    /\ IF db.table
       THEN /\ db' = db
            /\ pc' = "except"
       ELSE /\ db' = [exists |-> TRUE, table |-> TRUE, rows |-> <<>>, seq |-> 0]
            /\ pc' = "load"
    /\ UNCHANGED <<jsonExists, corpus, txn, data, i, records_to_insert,
                   seen_records_fingerprints, skipped_invalid_count,
                   skipped_duplicate_count, out, runs, lastStore>>
    /\ UNCHANGED <<cleanVars, aggVars, readVars>>

\* lines 38-48; open raises when the file is not there
LoadJson ==
    /\ pc = "load"
    /\ IF jsonExists
       THEN /\ data' = corpus
            /\ records_to_insert' = <<>>
            /\ seen_records_fingerprints' = {}
            /\ skipped_invalid_count' = 0
            /\ skipped_duplicate_count' = 0
            /\ i' = 1
            /\ out' = Append(out, <<"loaded", Len(corpus)>>)
            /\ pc' = (IF Len(corpus) = 0 THEN "insert" ELSE "loop")
       ELSE /\ pc' = "except"
            /\ UNCHANGED <<data, records_to_insert, seen_records_fingerprints,
                           skipped_invalid_count, skipped_duplicate_count, i, out>>
    /\ UNCHANGED <<jsonExists, corpus, db, txn, runs, lastStore>>
    /\ UNCHANGED <<cleanVars, aggVars, readVars>>

\* lines 50-90: one iteration of the loop
LoopRecord ==
    /\ pc = "loop"
    /\ i <= Len(data)
    /\ LET record         == data[i]
           course_num_raw == record.CourseNumber
           parsed         == int(course_num_raw)
           course_num_int == parsed.v
           fingerprint    == Fingerprint(record.Subject, course_num_int,
                                         record.AcademicPeriod, record.Instructor)
       IN  IF course_num_raw = JNull
           THEN \* lines 55-57
                /\ skipped_invalid_count' = skipped_invalid_count + 1
                /\ UNCHANGED <<skipped_duplicate_count, seen_records_fingerprints,
                               records_to_insert, out>>
           ELSE IF ~parsed.ok
           THEN \* lines 59-62
                /\ skipped_invalid_count' = skipped_invalid_count + 1
                /\ out' = Append(out, <<"warning-bad-course-number", i>>)
                /\ UNCHANGED <<skipped_duplicate_count, seen_records_fingerprints,
                               records_to_insert>>
           ELSE IF Seen(fingerprint, seen_records_fingerprints)
           THEN \* lines 72-76
                /\ skipped_duplicate_count' = skipped_duplicate_count + 1
                /\ UNCHANGED <<skipped_invalid_count, seen_records_fingerprints,
                               records_to_insert, out>>
           ELSE \* lines 77-90
                /\ seen_records_fingerprints' =
                       seen_records_fingerprints \cup {fingerprint}
                /\ records_to_insert' =
                       Append(records_to_insert, RecordTuple(record, course_num_int))
                /\ UNCHANGED <<skipped_invalid_count, skipped_duplicate_count, out>>
    /\ i' = i + 1
    /\ pc' = (IF i + 1 > Len(data) THEN "insert" ELSE "loop")
    /\ UNCHANGED <<jsonExists, corpus, db, txn, data, runs, lastStore>>
    /\ UNCHANGED <<cleanVars, aggVars, readVars>>

\* lines 92-102: the rows go into the open transaction, which a reader of
\* the file does not see; a failed constraint raises.
InsertBatch ==
    /\ pc = "insert"
    /\ IF records_to_insert # <<>>
       THEN LET res == ExecuteMany(records_to_insert, db.rows, db.seq)
            IN  /\ txn' = SubSeq(res.rows, Len(db.rows) + 1, Len(res.rows))
                /\ IF res.ok
                   THEN /\ out' = Append(out, <<"inserted", Len(records_to_insert)>>)
                        /\ pc' = "summary"
                   ELSE /\ out' = out
                        /\ pc' = "except"
       ELSE /\ txn' = txn
            /\ out' = out
            /\ pc' = "summary"
    /\ UNCHANGED <<jsonExists, corpus, db, data, i, records_to_insert,
                   seen_records_fingerprints, skipped_invalid_count,
                   skipped_duplicate_count, runs, lastStore>>
    /\ UNCHANGED <<cleanVars, aggVars, readVars>>

\* lines 104-107
SummaryLinesInvalidOnly(invalid, duplicate) ==
    IF invalid > 0 THEN << <<"skipped-invalid", invalid>> >> ELSE <<>>

SummaryLines(invalid, duplicate) ==
    (IF invalid > 0 THEN << <<"skipped-invalid", invalid>> >> ELSE <<>>)
    \o (IF duplicate > 0 THEN << <<"skipped-duplicate", duplicate>> >> ELSE <<>>)

PrintSummary ==
    /\ pc = "summary"
    /\ out' = out \o SummaryLines(skipped_invalid_count, skipped_duplicate_count)
    /\ pc' = "commit"
    /\ UNCHANGED <<jsonExists, corpus, db, txn, data, i, records_to_insert,
                   seen_records_fingerprints, skipped_invalid_count,
                   skipped_duplicate_count, runs, lastStore>>
    /\ UNCHANGED <<cleanVars, aggVars, readVars>>

\* lines 109-111
Commit ==
    /\ pc = "commit"
    /\ db' = [db EXCEPT !.rows = db.rows \o txn,
                        !.seq = IF txn = <<>> THEN db.seq ELSE txn[Len(txn)].id]
    /\ txn' = <<>>
    /\ out' = Append(out, <<"complete", 0>>)
    /\ pc' = "done"
    /\ UNCHANGED <<jsonExists, corpus, data, i, records_to_insert,
                   seen_records_fingerprints, skipped_invalid_count,
                   skipped_duplicate_count, runs, lastStore>>
    /\ UNCHANGED <<cleanVars, aggVars, readVars>>

\* The store after a connection holding the uncommitted rows pending is
\* dropped: line 113 leaves conn without commit or close, and SQLite rolls
\* the open transaction back
RollbackCommits(store, pending) == [store EXCEPT !.rows = store.rows \o pending]

Rollback(store, pending) == store

\* lines 113-114: the error is printed and the function returns; the
\* connection is dropped without a commit, which rolls the transaction back.
Except ==
    /\ pc = "except"
    /\ db' = Rollback(db, txn)
    /\ txn' = <<>>
    /\ out' = Append(out, <<"script-failed", 0>>)
    /\ pc' = "failed"
    /\ UNCHANGED <<jsonExists, corpus, data, i, records_to_insert,
                   seen_records_fingerprints, skipped_invalid_count,
                   skipped_duplicate_count, runs, lastStore>>
    /\ UNCHANGED <<cleanVars, aggVars, readVars>>

\* The operator runs the script again on the same corpus file.
Rerun ==
    /\ pc \in {"done", "failed", "nojson"}
    /\ runs < MaxRuns
    /\ runs' = runs + 1
    /\ lastStore' = db
    /\ pc' = "start"
    /\ txn' = <<>>
    /\ data' = <<>>
    /\ i' = 1
    /\ records_to_insert' = <<>>
    /\ seen_records_fingerprints' = {}
    /\ skipped_invalid_count' = 0
    /\ skipped_duplicate_count' = 0
    /\ out' = <<>>
    /\ UNCHANGED <<jsonExists, corpus, db>>
    /\ UNCHANGED <<cleanVars, aggVars, readVars>>

NextLoad ==
    \/ CheckJson
    \/ RemoveDb
    \/ Connect
    \/ LoadJson
    \/ LoopRecord
    \/ InsertBatch
    \/ PrintSummary
    \/ Commit
    \/ Except
    \/ Rerun

SpecLoad == InitLoad /\ [][NextLoad]_vars

\* ------------------------------------------------------------------------
\* Scripts/BoilerGrades2022Fall.py: the per-term cleaning script
\* ------------------------------------------------------------------------
\* A cell of the table is a value as above: JNull is a missing cell (NaN),
\* JStr a text (its characters), JInt a number.
\* A row is [id, Instructor, pct, gpa]: the identity cells by column, the
\* instructor, the grade cells by column, and gpa_estimate_normalized, which
\* is <<>> until line 110 adds the column.

\* line 72
columns_to_fill ==
    <<"Subject", "Subject Desc", "Course Number", "Title", "Academic Period">>

IdentityCols == { columns_to_fill[c] : c \in 1..Len(columns_to_fill) }

\* lines 30-58 and 80: the columns whose name holds '_pct'
percentage_columns ==
    { "a_pct", "a_minus_pct", "a_plus_pct", "audit_pct", "b_pct",
      "b_minus_pct", "b_plus_pct", "c_pct", "c_minus_pct", "c_plus_pct",
      "d_pct", "d_minus_pct", "d_plus_pct", "e_pct", "f_pct",
      "incomplete_pct", "not_passed_pct", "no_show_pct", "pass_pct",
      "permanent_incomplete_pct", "satisfactory_pct",
      "satisfactory_incomplete_pct", "unsatisfactory_pct", "withdrawn_pct",
      "withdrawn_failing_pct", "withdrawn_never_attended_pct",
      "withdrawn_unknown_pct" }

\* lines 90-96, the points in tenths
gpa_map_AMinusAsA ==
    [g \in { "a_plus_pct", "a_pct", "a_minus_pct", "b_plus_pct", "b_pct",
             "b_minus_pct", "c_plus_pct", "c_pct", "c_minus_pct",
             "d_plus_pct", "d_pct", "d_minus_pct", "f_pct", "e_pct",
             "withdrawn_failing_pct" } |->
        CASE g = "a_plus_pct" -> 40 [] g = "a_pct" -> 40 [] g = "a_minus_pct" -> 40
          [] g = "b_plus_pct" -> 33 [] g = "b_pct" -> 30 [] g = "b_minus_pct" -> 27
          [] g = "c_plus_pct" -> 23 [] g = "c_pct" -> 20 [] g = "c_minus_pct" -> 17
          [] g = "d_plus_pct" -> 13 [] g = "d_pct" -> 10 [] g = "d_minus_pct" -> 7
          [] OTHER -> 0]

gpa_map ==
    [g \in { "a_plus_pct", "a_pct", "a_minus_pct", "b_plus_pct", "b_pct",
             "b_minus_pct", "c_plus_pct", "c_pct", "c_minus_pct",
             "d_plus_pct", "d_pct", "d_minus_pct", "f_pct", "e_pct",
             "withdrawn_failing_pct" } |->
        CASE g = "a_plus_pct" -> 40 [] g = "a_pct" -> 40 [] g = "a_minus_pct" -> 37
          [] g = "b_plus_pct" -> 33 [] g = "b_pct" -> 30 [] g = "b_minus_pct" -> 27
          [] g = "c_plus_pct" -> 23 [] g = "c_pct" -> 20 [] g = "c_minus_pct" -> 17
          [] g = "d_plus_pct" -> 13 [] g = "d_pct" -> 10 [] g = "d_minus_pct" -> 7
          [] OTHER -> 0]

\* line 98
grade_cols_AllPercentages == percentage_columns

grade_cols == { c \in percentage_columns : c \in DOMAIN gpa_map }

\* pd.notna
notna(val) == val.t # "null"

\* lines 11-20
RECURSIVE FillFirstOnly(_, _, _)
FillFirstOnly(series, last_value, filled) ==
    IF series = <<>> THEN filled
    ELSE LET val == Head(series)
         IN  IF notna(val)
             THEN FillFirstOnly(Tail(series),
                                IF notna(last_value) THEN last_value ELSE val,
                                Append(filled, val))
             ELSE FillFirstOnly(Tail(series), last_value, Append(filled, last_value))

smart_forward_fill_first(series) == FillFirstOnly(series, JNull, <<>>)

\* a fill that carries a value over one missing cell only
smart_forward_fill_limit1(series) ==
    [k \in 1..Len(series) |->
        IF notna(series[k]) \/ k = 1 THEN series[k] ELSE series[k - 1]]

RECURSIVE Fill(_, _, _)
Fill(series, last_value, filled) ==
    IF series = <<>> THEN filled
    ELSE LET val == Head(series)
         IN  IF notna(val)
             THEN Fill(Tail(series), val, Append(filled, val))
             ELSE Fill(Tail(series), last_value, Append(filled, last_value))

smart_forward_fill(series) == Fill(series, JNull, <<>>)

\* df[c], and df[c] = series
Column(table, c) == [r \in 1..Len(table) |-> table[r].id[c]]

SetColumn(table, c, series) ==
    [r \in 1..Len(table) |-> [table[r] EXCEPT !.id[c] = series[r]]]

\* Python str(n) of an integer n >= 0: its decimal digits
RECURSIVE str(_)
str(n) ==
    IF n < 10 THEN <<Digits[n + 1]>>
    ELSE str(n \div 10) \o <<Digits[(n % 10) + 1]>>

\* line 84: astype(str), then the two str.replace
astype_str(val) ==
    CASE val.t = "null" -> <<"n", "a", "n">>
      [] val.t = "str"  -> val.s
      [] val.t = "int"  -> str(val.n)
      [] OTHER          -> <<>>

RECURSIVE Remove(_, _)
Remove(s, ch) ==
    IF s = <<>> THEN <<>>
    ELSE IF Head(s) = ch THEN Remove(Tail(s), ch)
    ELSE <<Head(s)>> \o Remove(Tail(s), ch)

\* The places of the decimal points of a text
PointPlaces(s) == { k \in 1..Len(s) : s[k] = "." }

\* A text of digits around one decimal point, with a digit on at least one
\* side, as "87.5", "4." and ".5"
IsDecimal(s) ==
    /\ Cardinality(PointPlaces(s)) = 1
    /\ Len(s) >= 2
    /\ \A k \in 1..Len(s) : IsDigit(s[k]) \/ s[k] = "."

\* The number of a decimal text in tenths; the texts of the input domain
\* have at most one digit after the point
DecimalTenths(s) ==
    LET p     == CHOOSE k \in PointPlaces(s) : TRUE
        whole == SubSeq(s, 1, p - 1)
        frac  == SubSeq(s, p + 1, Len(s))
    IN  CASE Len(frac) = 0 -> 10 * DecimalValue(whole)
          [] Len(frac) = 1 -> 10 * DecimalValue(whole) + DecimalValue(frac)

\* line 85: pd.to_numeric(errors='coerce') of a text made of the letters,
\* digits and marks of the input domain: a run of digits is its number, a
\* decimal is its number, every other text ("nan", "N/A", "-", the empty
\* text) is NaN
to_numeric_fill0(s) ==
    IF s # <<>> /\ \A k \in 1..Len(s) : IsDigit(s[k])
    THEN JInt(DecimalValue(s))
    ELSE IF IsDecimal(s) THEN JFloat(DecimalTenths(s))
    ELSE JInt(0)

to_numeric(s) ==
    IF s # <<>> /\ \A k \in 1..Len(s) : IsDigit(s[k])
    THEN JInt(DecimalValue(s))
    ELSE IF IsDecimal(s) THEN JFloat(DecimalTenths(s))
    ELSE JNull

Coerce(val) == to_numeric(Remove(Remove(astype_str(val), "%"), "<"))

\* Sum of the numbers f[c] for c in S
RECURSIVE SumOver(_, _)
SumOver(S, f) ==
    IF S = {} THEN 0
    ELSE LET c == CHOOSE x \in S : TRUE
         IN  f[c] + SumOver(S \ {c}, f)

RECURSIVE GCD(_, _)
GCD(a, b) == IF b = 0 THEN a ELSE GCD(b, a % b)

\* The fraction num/den in lowest terms
Fraction(num, den) ==
    IF num = 0 THEN <<0, 1>>
    ELSE <<num \div GCD(num, den), den \div GCD(num, den)>>

\* The number of a cell in tenths
Tenths(val) == IF val.t = "float" THEN val.n ELSE 10 * val.n

\* lines 99-108 for one row: the sum of the reported mapped percentages
\* (NaN skipped), 0 replaced by NaN, each percentage divided by it, NaN
\* filled with 0, and the dot product with gpa_map (a column the map does
\* not list multiplies to NaN, which the final sum skips).  The value is the
\* exact fraction, in lowest terms: the result in real arithmetic, without
\* the rounding of the floating-point operations (for which see
\* GpaEstimate64).
GpaEstimate(pct) ==
    LET reported   == [c \in grade_cols |-> IF notna(pct[c]) THEN Tenths(pct[c]) ELSE 0]
        sum_of_pct == SumOver(grade_cols, reported)
        weighted   == [c \in grade_cols |->
                          IF sum_of_pct = 0 \/ ~notna(pct[c])
                             \/ c \notin DOMAIN gpa_map
                          THEN 0
                          ELSE Tenths(pct[c]) * gpa_map[c]]
    IN  IF sum_of_pct = 0 THEN <<0, 1>>
        ELSE Fraction(SumOver(grade_cols, weighted), 10 * sum_of_pct)

\* ---- the tables the script is run on ----
MaxRows == 3

MaxBlanks == 3

MaxReported == 2

\* The texts of the grade cells of the input
PctTexts ==
    { <<"0", "%">>, <<"5", "0", "%">>, <<"1", "0", "0", "%">> }

\* The text of identity column c in row r of the extract; no two cells of
\* a column hold the same text
IdText(c, r) == JStr(<<c, Digits[r + 1]>>)

RECURSIVE SubsetsUpTo(_, _)
SubsetsUpTo(S, k) ==
    IF k = 0 THEN { {} }
    ELSE LET smaller == SubsetsUpTo(S, k - 1)
         IN  smaller \cup { m \cup {x} : m \in smaller, x \in S }

NoGrades == [c \in percentage_columns |-> JNull]

\* A table of n rows whose identity cells in blanks are missing
FillTable(n, blanks) ==
    [r \in 1..n |->
        [id |-> [c \in IdentityCols |->
                    IF <<r, c>> \in blanks THEN JNull ELSE IdText(c, r)],
         Instructor |-> JStr(<<"Smith">>),
         pct |-> NoGrades,
         gpa |-> <<>>]]

FillTables ==
    UNION { { FillTable(n, blanks) :
                blanks \in SubsetsUpTo((1..n) \X IdentityCols, MaxBlanks) } :
            n \in 1..MaxRows }

\* The grade cells with the texts of assignment on its columns
GradeCells(assignment) ==
    [c \in percentage_columns |->
        IF \E a \in assignment : a[1] = c
        THEN JStr((CHOOSE a \in assignment : a[1] = c)[2])
        ELSE JNull]

GradeRows ==
    { GradeCells(assignment) :
        assignment \in { m \in SubsetsUpTo(percentage_columns \X PctTexts, MaxReported) :
                            \A a, b \in m : a[1] = b[1] => a = b } }

\* The columns of the 14-entry point map: A+ .. D-, F and WF
SpecMapped ==
    { "a_plus_pct", "a_pct", "a_minus_pct", "b_plus_pct", "b_pct",
      "b_minus_pct", "c_plus_pct", "c_pct", "c_minus_pct", "d_plus_pct",
      "d_pct", "d_minus_pct", "f_pct", "withdrawn_failing_pct" }

\* A section with the grade cells pct, followed by a section that reports
\* the same A+ .. D-, F and WF cells and nothing else
GradeTable(pct) ==
    << [id |-> [c \in IdentityCols |-> IdText(c, 1)],
        Instructor |-> JStr(<<"Smith">>), pct |-> pct, gpa |-> <<>>],
       [id |-> [c \in IdentityCols |-> IdText(c, 2)],
        Instructor |-> JStr(<<"Jones">>),
        pct |-> [c \in percentage_columns |->
                    IF c \in SpecMapped THEN pct[c] ELSE JNull],
        gpa |-> <<>>] >>

GradeTables == { GradeTable(pct) : pct \in GradeRows }

\* The cells of a grade column of the extract: percentage texts, the "<1%"
\* of a suppressed small share, texts that are no number, a cell read as a
\* number, and a missing cell
CoerceCells ==
    { JStr(<<"8", "7", "%">>), JStr(<<"<", "1", "%">>), JStr(<<"0", "%">>),
      JStr(<<"<", "5", "%", "%">>), JStr(<<>>), JStr(<<"N", "/", "A">>),
      JStr(<<"-">>), JStr(<<"8", "7", ".", "5", "%">>), JInt(87), JNull }

\* A one-section table whose grade column c holds cell and nothing else
CoerceTable(c, cell) ==
    << [id |-> [k \in IdentityCols |-> IdText(k, 1)],
        Instructor |-> JStr(<<"Smith">>),
        pct |-> [NoGrades EXCEPT ![c] = cell],
        gpa |-> <<>>] >>

CoerceTables ==
    { CoerceTable(c, cell) : c \in percentage_columns, cell \in CoerceCells }

\* The loader is not running.
LoadIdle ==
    /\ pc = "idle"
    /\ jsonExists = FALSE
    /\ corpus = <<>>
    /\ db = NoFile
    /\ InitLocals
    /\ runs = 0
    /\ lastStore = NoFile

\* line 9 and lines 25-70: the table after the columns are dropped and named
InitClean ==
    /\ raw \in FillTables \cup GradeTables \cup CoerceTables
    /\ df = raw
    /\ cpc = "fill"
    /\ col = 1
    /\ cleaned = <<>>
    /\ LoadIdle
    /\ AggIdle
    /\ ReadIdle

\* lines 74-75: one column of the loop
FillColumn ==
    /\ cpc = "fill"
    /\ col <= Len(columns_to_fill)
    /\ LET c == columns_to_fill[col]
       IN  df' = SetColumn(df, c, smart_forward_fill(Column(df, c)))
    /\ col' = col + 1
    /\ cpc' = (IF col + 1 > Len(columns_to_fill) THEN "coerce" ELSE "fill")
    /\ UNCHANGED <<raw, cleaned>>
    /\ UNCHANGED <<loadVars, aggVars, readVars>>

\* lines 80-85
CoercePercentages ==
    /\ cpc = "coerce"
    /\ df' = [r \in 1..Len(df) |->
                [df[r] EXCEPT !.pct = [c \in percentage_columns |-> Coerce(df[r].pct[c])]]]
    /\ cpc' = "gpa"
    /\ UNCHANGED <<raw, col, cleaned>>
    /\ UNCHANGED <<loadVars, aggVars, readVars>>

\* lines 98-110
EstimateGpa ==
    /\ cpc = "gpa"
    /\ df' = [r \in 1..Len(df) |-> [df[r] EXCEPT !.gpa = GpaEstimate(df[r].pct)]]
    /\ cpc' = "write"
    /\ UNCHANGED <<raw, col, cleaned>>
    /\ UNCHANGED <<loadVars, aggVars, readVars>>

\* line 123
WriteJson ==
    /\ cpc = "write"
    /\ cleaned' = df
    /\ cpc' = "written"
    /\ UNCHANGED <<raw, df, col>>
    /\ UNCHANGED <<loadVars, aggVars, readVars>>

NextClean ==
    \/ FillColumn
    \/ CoercePercentages
    \/ EstimateGpa
    \/ WriteJson

SpecClean == InitClean /\ [][NextClean]_vars


\* ------------------------------------------------------------------------
\* Lines 85-110 in double precision
\* ------------------------------------------------------------------------
\* pandas keeps the grade columns as float64 and lines 101-108 are IEEE 754
\* binary64 operations, each rounded to nearest, ties to even.  They are
\* computed here on natural numbers of any size: a natural is its limbs in
\* base 2^15, least significant first, without a zero limb at the end; zero
\* is <<>>.
RECURSIVE Norm(_)
Norm(a) ==
    IF a = <<>> THEN <<>>
    ELSE IF a[Len(a)] = 0 THEN Norm(SubSeq(a, 1, Len(a) - 1))
    ELSE a

\* the natural of an integer 0 <= n < 2^31
FromInt(n) ==
    Norm(<<n % 32768, (n \div 32768) % 32768, n \div (32768 * 32768)>>)

RECURSIVE CmpFrom(_, _, _)
CmpFrom(a, b, k) ==
    IF k = 0 THEN 0
    ELSE IF a[k] > b[k] THEN 1
    ELSE IF a[k] < b[k] THEN -1
    ELSE CmpFrom(a, b, k - 1)

\* -1, 0, 1 as a < b, a = b, a > b
Cmp(a, b) ==
    IF Len(a) > Len(b) THEN 1
    ELSE IF Len(a) < Len(b) THEN -1
    ELSE CmpFrom(a, b, Len(a))

Limb(a, k) == IF k <= Len(a) THEN a[k] ELSE 0

RECURSIVE AddFrom(_, _, _, _, _)
AddFrom(a, b, k, carry, acc) ==
    IF k > Len(a) /\ k > Len(b)
    THEN IF carry = 0 THEN acc ELSE Append(acc, carry)
    ELSE LET t == Limb(a, k) + Limb(b, k) + carry
         IN  AddFrom(a, b, k + 1, t \div 32768, Append(acc, t % 32768))

Add(a, b) == AddFrom(a, b, 1, 0, <<>>)

RECURSIVE SubFrom(_, _, _, _, _)
SubFrom(a, b, k, borrow, acc) ==
    IF k > Len(a) THEN Norm(acc)
    ELSE LET t == a[k] - Limb(b, k) - borrow
         IN  IF t < 0 THEN SubFrom(a, b, k + 1, 1, Append(acc, t + 32768))
             ELSE SubFrom(a, b, k + 1, 0, Append(acc, t))

\* a - b for a >= b
Sub(a, b) == SubFrom(a, b, 1, 0, <<>>)

RECURSIVE MulSmallFrom(_, _, _, _, _)
MulSmallFrom(a, s, k, carry, acc) ==
    IF k > Len(a)
    THEN IF carry = 0 THEN acc ELSE Append(acc, carry)
    ELSE LET t == a[k] * s + carry
         IN  MulSmallFrom(a, s, k + 1, t \div 32768, Append(acc, t % 32768))

\* a * s for 0 <= s < 2^15
MulSmall(a, s) == IF s = 0 THEN <<>> ELSE MulSmallFrom(a, s, 1, 0, <<>>)

\* a * 2^(15 n)
ShiftLimbs(a, n) == IF a = <<>> THEN <<>> ELSE [k \in 1..n |-> 0] \o a

RECURSIVE MulFrom(_, _, _, _)
MulFrom(a, b, k, acc) ==
    IF k > Len(b) THEN acc
    ELSE MulFrom(a, b, k + 1, Add(acc, ShiftLimbs(MulSmall(a, b[k]), k - 1)))

Mul(a, b) == MulFrom(a, b, 1, <<>>)

RECURSIVE Pow2Small(_)
Pow2Small(n) == IF n = 0 THEN 1 ELSE 2 * Pow2Small(n - 1)

\* a * 2^n
Shl(a, n) == ShiftLimbs(MulSmall(a, Pow2Small(n % 15)), n \div 15)

RECURSIVE BitLenSmall(_)
BitLenSmall(n) == IF n = 0 THEN 0 ELSE 1 + BitLenSmall(n \div 2)

\* the number of binary digits of a
BitLen(a) == IF a = <<>> THEN 0 ELSE 15 * (Len(a) - 1) + BitLenSmall(a[Len(a)])

\* One limb of binary long division: the binary digits k .. 0 of limb are
\* brought down onto the remainder r; q is the quotient so far
RECURSIVE DivBits(_, _, _, _, _)
DivBits(limb, d, k, q, r) ==
    IF k < 0 THEN [q |-> q, r |-> r]
    ELSE LET r2 == Add(Add(r, r), FromInt((limb \div Pow2Small(k)) % 2))
             q2 == Add(q, q)
         IN  IF Len(q2) >= 0 /\ Cmp(r2, d) >= 0
             THEN DivBits(limb, d, k - 1, Add(q2, <<1>>), Sub(r2, d))
             ELSE DivBits(limb, d, k - 1, q2, r2)

RECURSIVE DivLimbs(_, _, _, _)
DivLimbs(n, d, j, qr) ==
    IF j = 0 THEN qr
    ELSE DivLimbs(n, d, j - 1, DivBits(n[j], d, 14, qr.q, qr.r))

\* floor(n / d) and n mod d
DivMod(n, d) == DivLimbs(n, d, Len(n), [q |-> <<>>, r |-> <<>>])

\* A float64 that is zero or positive and normal is [m, e], the number
\* m * 2^e with 2^52 <= m < 2^53; zero is [<<>>, 0].  The percentages and
\* the points are not negative and far from the ends of the exponent range.
Zero64 == [m |-> <<>>, e |-> 0]

\* The float64 nearest to (n / d) * 2^e, ties to even
Round64(n, d, e) ==
    IF n = <<>> THEN Zero64
    ELSE LET bn == BitLen(n)
             bd == BitLen(d)
             \* n / d is in [2^(bn-bd), 2^(bn-bd+1)) or below 2^(bn-bd)
             hi == Cmp(Shl(n, bd), Shl(d, bn)) >= 0
             s  == IF hi THEN 52 - (bn - bd) ELSE 53 - (bn - bd)
             n2 == IF s >= 0 THEN Shl(n, s) ELSE n
             d2 == IF s >= 0 THEN d ELSE Shl(d, -s)
             qr == DivMod(n2, d2)
             c  == Cmp(Add(qr.r, qr.r), d2)
             up == c > 0 \/ (c = 0 /\ Limb(qr.q, 1) % 2 = 1)
             m  == IF up THEN Add(qr.q, <<1>>) ELSE qr.q
         IN  IF BitLen(m) > 53
             THEN [m |-> Shl(<<1>>, 52), e |-> e - s + 1]
             ELSE [m |-> m, e |-> e - s]

\* x + y, line 101 and line 108
add64(x, y) ==
    IF x.m = <<>> THEN y
    ELSE IF y.m = <<>> THEN x
    ELSE LET e == IF x.e < y.e THEN x.e ELSE y.e
         IN  Round64(Add(Shl(x.m, x.e - e), Shl(y.m, y.e - e)), <<1>>, e)

\* x * y, line 108
mul64(x, y) == Round64(Mul(x.m, y.m), <<1>>, x.e + y.e)

\* x / y for y > 0, line 105
div64_by_100(x, y) == Round64(x.m, <<100>>, x.e)

div64(x, y) == Round64(x.m, y.m, x.e - y.e)

\* The float64 of a number cell: pd.to_numeric gives the float64 nearest to
\* the decimal, line 85
float64(val) == Round64(FromInt(Tenths(val)), <<10>>, 0)

\* pd.Series(gpa_map): the float64 of each literal of lines 91-95
gpa_map64 == [c \in DOMAIN gpa_map |-> Round64(FromInt(gpa_map[c]), <<10>>, 0)]

\* sum(axis=1) of the float64 f[c], c in S.  Rows with at most two numbers
\* other than 0 are summed here, for which the order of the additions does
\* not change the result.
RECURSIVE Sum64(_, _)
Sum64(S, f) ==
    IF S = {} THEN Zero64
    ELSE LET c == CHOOSE x \in S : TRUE
         IN  add64(f[c], Sum64(S \ {c}, f))

\* lines 99-108 for one row, every operation rounded to float64: the sum of
\* the reported mapped percentages (NaN skipped), 0 replaced by NaN, each
\* percentage divided by it, NaN filled with 0, and the dot product with
\* gpa_map
GpaEstimate64(pct) ==
    LET reported   == [c \in grade_cols |->
                          IF notna(pct[c]) THEN float64(pct[c]) ELSE Zero64]
        sum_of_pct == Sum64(grade_cols, reported)
        normalized == [c \in grade_cols |->
                          IF sum_of_pct = Zero64 \/ ~notna(pct[c]) THEN Zero64
                          ELSE div64(reported[c], sum_of_pct)]
        weighted   == [c \in grade_cols |->
                          IF c \in DOMAIN gpa_map
                          THEN mul64(normalized[c], gpa_map64[c])
                          ELSE Zero64]
    IN  Sum64(grade_cols, weighted)

\* The shares of a grade in a section, in tenths of a percent
Shares == {0, 1, 2, 43, 500}

\* The constants a section's shares are multiplied by
Scales == {3, 10}

\* The text of a share in the extract: "4.3%", "50%"
PctText(tenths) ==
    str(tenths \div 10)
        \o (IF tenths % 10 = 0 THEN <<>> ELSE <<".", Digits[(tenths % 10) + 1]>>)
        \o <<"%">>

\* The grade cells of a section that reports share a of grade A and share t
\* of grade c, and nothing else
PairCells(c, t, a) ==
    [k \in percentage_columns |->
        IF k = c THEN JStr(PctText(t))
        ELSE IF k = "a_pct" THEN JStr(PctText(a))
        ELSE JNull]

\* A section, followed by a section with each share multiplied by scale
ScaleTable(c, t, a, scale) ==
    << [id |-> [k \in IdentityCols |-> IdText(k, 1)],
        Instructor |-> JStr(<<"Smith">>),
        pct |-> PairCells(c, t, a), gpa |-> <<>>],
       [id |-> [k \in IdentityCols |-> IdText(k, 2)],
        Instructor |-> JStr(<<"Jones">>),
        pct |-> PairCells(c, scale * t, scale * a), gpa |-> <<>>] >>

ScaleTables ==
    { ScaleTable(c, t, a, scale) :
        c \in grade_cols, t \in Shares, a \in Shares, scale \in Scales }

InitGpa ==
    /\ raw \in ScaleTables
    /\ df = raw
    /\ cpc = "fill"
    /\ col = 1
    /\ cleaned = <<>>
    /\ LoadIdle
    /\ AggIdle
    /\ ReadIdle

\* lines 98-110, in float64
EstimateGpa64 ==
    /\ cpc = "gpa"
    /\ df' = [r \in 1..Len(df) |-> [df[r] EXCEPT !.gpa = GpaEstimate64(df[r].pct)]]
    /\ cpc' = "write"
    /\ UNCHANGED <<raw, col, cleaned>>
    /\ UNCHANGED <<loadVars, aggVars, readVars>>

\* lines 72-110
NextGpa ==
    \/ FillColumn
    \/ CoercePercentages
    \/ EstimateGpa64

SpecGpa == InitGpa /\ [][NextGpa]_vars

\* ------------------------------------------------------------------------
\* backend/test.py: query_gpa while create_new_database runs
\* ------------------------------------------------------------------------
MaxReadRecords == 1

\* The corpora of the runs that are queried: records with course number 101
ReadCorpora ==
    SeqsUpTo({ r \in Records : r.CourseNumber = JInt(101) }, MaxReadRecords)

\* args.subject of the query
Subjects == {"CS", "OLD"}

\* SELECT AVG(gpa_estimate_normalized) FROM grades WHERE ... subject = ?,
\* lines 18-24 and 39-40: <<sum, count>> of the matching rows (tenths), or
\* <<"None">> when no row matches
Avg(rows, subject) ==
    LET match == SelectSeq(rows, LAMBDA row : row.subject = subject)
        gpas  == [k \in 1..Len(match) |-> match[k].gpa_estimate_normalized]
    IN  IF match = <<>> THEN <<"None">>
        ELSE <<SumOver(1..Len(match), gpas), Len(match)>>

InitRead ==
    /\ pc = "start"
    /\ jsonExists = TRUE
    /\ corpus \in ReadCorpora
    /\ db \in PriorStores
    /\ InitLocals
    /\ runs = 1
    /\ lastStore = db
    /\ CleanIdle
    /\ AggIdle
    /\ ReadIdle

\* lines 15-41: sqlite3.connect creates the file when it is not there; the
\* SELECT raises OperationalError when the file has no grades table; rows
\* of an open transaction of another connection are not read
Query ==
    /\ \E subject \in Subjects :
          observed' = [at |-> pc, run |-> runs, exists |-> db.exists,
                       table |-> db.table, rows |-> db.rows,
                       result |-> IF db.table THEN Avg(db.rows, subject)
                                  ELSE <<"OperationalError">>]
    /\ db' = [db EXCEPT !.exists = TRUE]
    /\ UNCHANGED <<pc, jsonExists, corpus, txn, data, i, records_to_insert,
                   seen_records_fingerprints, skipped_invalid_count,
                   skipped_duplicate_count, out, runs, lastStore>>
    /\ UNCHANGED <<cleanVars, aggVars>>

NextRead ==
    \/ NextLoad
    \/ Query

SpecRead == InitRead /\ [][NextRead]_vars

\* ------------------------------------------------------------------------
\* Scripts/CombineAllJSON.py: the aggregation script
\* ------------------------------------------------------------------------
\* line 6: range(1, 11)
NumFiles == 10

MaxAggRecords == 2

\* The records of the per-term files; the script never looks inside one
AggRecords == {"x", "y"}

\* A per-term file: its list of records, or a file that is not there, or a
\* file that is no JSON
Missing == <<"<missing>">>

NotJson == <<"<not json>">>

Readable(f) == f \notin {Missing, NotJson}

RECURSIVE TotalLen(_, _)
TotalLen(fs, n) == IF n = 0 THEN 0 ELSE TotalLen(fs, n - 1) + Len(fs[n])

\* The directories the script is run in: the ten files hold at most
\* MaxAggRecords records, in at most two of the files, and one file may be
\* missing or unparseable
Directories ==
    { [n \in 1..NumFiles |->
          IF n = bad /\ kind # <<>> THEN kind
          ELSE IF n = a /\ n = b THEN la \o lb
          ELSE IF n = a THEN la
          ELSE IF n = b THEN lb
          ELSE <<>>] :
        a \in 1..NumFiles, b \in 1..NumFiles,
        la \in SeqsUpTo(AggRecords, MaxAggRecords),
        lb \in SeqsUpTo(AggRecords, MaxAggRecords),
        bad \in 1..NumFiles, kind \in {<<>>, Missing, NotJson} }

\* line 10: list.extend
extend_new(list, more) ==
    list \o SelectSeq(more, LAMBDA x : \A k \in 1..Len(list) : list[k] # x)

extend(list, more) == list \o more

\* line 3
InitAgg ==
    /\ apc = "loop"
    /\ files \in { d \in Directories :
                     TotalLen([n \in 1..NumFiles |->
                                  IF Readable(d[n]) THEN d[n] ELSE <<>>],
                              NumFiles) <= MaxAggRecords }
    /\ file_i = 1
    /\ combined_data = <<>>
    /\ all_file = [exists |-> FALSE, data |-> <<>>]
    /\ LoadIdle
    /\ CleanIdle
    /\ ReadIdle

\* lines 6-10, one file of the loop
ReadFile ==
    /\ apc = "loop"
    /\ file_i <= NumFiles
    /\ Readable(files[file_i])
    /\ combined_data' = extend(combined_data, files[file_i])
    /\ file_i' = file_i + 1
    /\ apc' = (IF file_i + 1 > NumFiles THEN "write" ELSE "loop")
    /\ UNCHANGED <<files, all_file>>
    /\ UNCHANGED <<loadVars, cleanVars, readVars>>

\* lines 8-9: open raises FileNotFoundError, json.load raises
\* JSONDecodeError; nothing catches either and the script ends
Traceback ==
    /\ apc = "loop"
    /\ file_i <= NumFiles
    /\ ~Readable(files[file_i])
    /\ apc' = "crashed"
    /\ UNCHANGED <<files, file_i, combined_data, all_file>>
    /\ UNCHANGED <<loadVars, cleanVars, readVars>>

\* lines 13-14
WriteCombined ==
    /\ apc = "write"
    /\ all_file' = [exists |-> TRUE, data |-> combined_data]
    /\ apc' = "done"
    /\ UNCHANGED <<files, file_i, combined_data>>
    /\ UNCHANGED <<loadVars, cleanVars, readVars>>

NextAgg ==
    \/ ReadFile
    \/ Traceback
    \/ WriteCombined

SpecAgg == InitAgg /\ [][NextAgg]_vars

\* ------------------------------------------------------------------------
\* Properties of create_new_database
\* ------------------------------------------------------------------------
KeyOf(row) ==
    <<row.subject, row.course_number, row.academic_period, row.instructor>>

\* A record whose course number is present and integer-parseable
ValidCourse(record) ==
    record.CourseNumber # JNull /\ int(record.CourseNumber).ok

KeyOfRecord(record) ==
    <<record.Subject, int(record.CourseNumber).v, record.AcademicPeriod,
      record.Instructor>>

ValidIndexes == { k \in 1..Len(corpus) : ValidCourse(corpus[k]) }

InvalidIndexes == (1..Len(corpus)) \ ValidIndexes

\* The earliest valid record of the corpus with the key of record k
FirstOfGroup(k) ==
    CHOOSE j \in ValidIndexes :
        /\ KeyOfRecord(corpus[j]) = KeyOfRecord(corpus[k])
        /\ \A m \in ValidIndexes :
               KeyOfRecord(corpus[m]) = KeyOfRecord(corpus[k]) => j <= m

RowsOfKey(key) == { r \in 1..Len(db.rows) : KeyOf(db.rows[r]) = key }

Printed(line) == \E k \in 1..Len(out) : out[k] = line

PrintedKind(kind) == \E k \in 1..Len(out) : out[k][1] = kind

\* C1: after a run of create_new_database that completes, no two rows of
\* grades have the same (subject, course_number, academic_period,
\* instructor), a null instructor counting as a value.
C1_UniqueNaturalKey ==
    pc = "done" =>
        \A a, b \in 1..Len(db.rows) :
            a # b => KeyOf(db.rows[a]) # KeyOf(db.rows[b])

C1_Witness ==
    /\ pc = "done"
    /\ Len(db.rows) >= 2
    /\ skipped_duplicate_count >= 1
    /\ \E r \in 1..Len(db.rows) : db.rows[r].instructor = NULL

\* The group of valid records k belongs to has exactly one row, and the row
\* carries the non-key fields of the earliest record of the group.
FirstWins(k) ==
    LET key   == KeyOfRecord(corpus[k])
        first == corpus[FirstOfGroup(k)]
    IN  /\ Cardinality(RowsOfKey(key)) = 1
        /\ \A r \in RowsOfKey(key) :
               /\ db.rows[r].title = first.Title
               /\ db.rows[r].a_pct = first.a_pct
               /\ db.rows[r].gpa_estimate_normalized = first.gpa_estimate_normalized

\* C2 (as stated): when a run has ended, every group of valid records that
\* share a key has exactly one row, with the non-key fields of the earliest.
C2_FirstWinsEveryRun ==
    pc \in {"done", "failed"} => \A k \in ValidIndexes : FirstWins(k)

\* C2 (amended): when a run has completed, every group of valid records
\* that share a key has exactly one row, with the non-key fields of the
\* earliest record of the group in corpus order.
C2_FirstWinsCompletedRun ==
    pc = "done" => \A k \in ValidIndexes : FirstWins(k)

C2_Witness ==
    /\ pc = "done"
    /\ \E j, k \in ValidIndexes :
          /\ j < k
          /\ KeyOfRecord(corpus[j]) = KeyOfRecord(corpus[k])
          /\ corpus[j].Title # corpus[k].Title
          /\ FirstOfGroup(k) = j

\* C3: a record with a missing or not integer-parseable course number is
\* skipped and counted as invalid, the load goes on to the end of the
\* corpus, and no stored row has a null or zero course_number.
C3_InvalidSkippedNoZeroKey ==
    pc = "done" =>
        /\ skipped_invalid_count = Cardinality(InvalidIndexes)
        /\ i = Len(corpus) + 1
        /\ \A r \in 1..Len(db.rows) : db.rows[r].course_number # 0

InsertedCount == Len(records_to_insert)

Accounting ==
    /\ InsertedCount + skipped_invalid_count + skipped_duplicate_count
           = Len(corpus)
    /\ InsertedCount = Cardinality({ KeyOfRecord(corpus[k]) : k \in ValidIndexes })
    /\ InsertedCount = Len(db.rows)
    /\ skipped_invalid_count = Cardinality(InvalidIndexes)

\* C4 (as stated): on a completed load the three counts add up to the
\* number of input records, inserted is the number of distinct fingerprints
\* of the valid records and the row count of grades, and all three counts
\* are printed.
C4_CountsAllReported ==
    pc = "done" =>
        /\ Accounting
        /\ Printed(<<"inserted", InsertedCount>>)
        /\ Printed(<<"skipped-invalid", skipped_invalid_count>>)
        /\ Printed(<<"skipped-duplicate", skipped_duplicate_count>>)

\* C4 (amended): on a completed load the three counts add up to the number
\* of input records, inserted is the number of distinct fingerprints of the
\* valid records and the row count of grades, and each count that is not
\* zero is printed; a count of zero prints no line.
C4_CountsReportedWhenNonZero ==
    pc = "done" =>
        /\ Accounting
        /\ Printed(<<"inserted", InsertedCount>>) <=> InsertedCount > 0
        /\ PrintedKind("inserted") <=> InsertedCount > 0
        /\ Printed(<<"skipped-invalid", skipped_invalid_count>>)
               <=> skipped_invalid_count > 0
        /\ PrintedKind("skipped-invalid") <=> skipped_invalid_count > 0
        /\ Printed(<<"skipped-duplicate", skipped_duplicate_count>>)
               <=> skipped_duplicate_count > 0
        /\ PrintedKind("skipped-duplicate") <=> skipped_duplicate_count > 0

C4_Witness ==
    /\ pc = "done"
    /\ InsertedCount >= 1
    /\ skipped_invalid_count >= 1
    /\ skipped_duplicate_count >= 1

\* C5: a run that got past the corpus check leaves no row of the earlier
\* store; a completed run numbers its rows 1..n whatever the earlier store
\* held; and a completed second run on the same corpus leaves the store the
\* first run left (same rows, same ids, same content).
C5_RebuildIdempotent ==
    /\ pc \in {"done", "failed"} =>
           \A r \in 1..Len(db.rows) : db.rows[r] # StaleRow
    /\ pc = "done" =>
           /\ db.exists /\ db.table
           /\ \A r \in 1..Len(db.rows) : db.rows[r].id = r
           /\ db.seq = Len(db.rows)
    /\ (pc = "done" /\ runs >= 2) => db = lastStore

C5_Witness ==
    /\ pc = "done"
    /\ runs = 2
    /\ Len(db.rows) >= 2
    /\ db = lastStore

\* ------------------------------------------------------------------------
\* Properties of the cleaning script
\* ------------------------------------------------------------------------
FillDone == cpc \in {"coerce", "gpa", "write", "written"}

GpaDone == cpc \in {"write", "written"}

\* A percentage with null counted as 0
Pct(r, c) == IF notna(df[r].pct[c]) THEN df[r].pct[c].n ELSE 0

\* The point map A+=4.0 .. D-=0.7, F=0.0, WF=0.0 in tenths, and E=0.0
Points ==
    [g \in SpecMapped \cup {"e_pct"} |->
        CASE g \in {"a_plus_pct", "a_pct"} -> 40
          [] g = "a_minus_pct" -> 37 [] g = "b_plus_pct" -> 33
          [] g = "b_pct" -> 30       [] g = "b_minus_pct" -> 27
          [] g = "c_plus_pct" -> 23  [] g = "c_pct" -> 20
          [] g = "c_minus_pct" -> 17 [] g = "d_plus_pct" -> 13
          [] g = "d_pct" -> 10       [] g = "d_minus_pct" -> 7
          [] OTHER -> 0]

\* S and the weighted sum of row r over the grade columns cols
SumS(r, cols) == SumOver(cols, [c \in cols |-> Pct(r, c)])

WeightedSum(r, cols) == SumOver(cols, [c \in cols |-> Pct(r, c) * Points[c]])

\* gpa_estimate_normalized of row r is sum (pct / S) * points over cols
IsWeightedAverage(r, cols) ==
    df[r].gpa[1] * 10 * SumS(r, cols) = WeightedSum(r, cols) * df[r].gpa[2]

\* The only cells row r reports with a number other than 0
ReportsExactly(r, cells) ==
    \A c \in percentage_columns :
        Pct(r, c) = (IF \E x \in cells : x[1] = c
                     THEN (CHOOSE x \in cells : x[1] = c)[2] ELSE 0)

\* C6: a record whose mapped percentages (A+ .. D-, F, WF) are all null or
\* 0 gets the undefined sentinel as gpa_estimate_normalized, never 0.0.
C6_UndefinedIsNotZero ==
    GpaDone =>
        \A r \in 1..Len(df) :
            SumS(r, SpecMapped) = 0 => df[r].gpa # <<0, 1>>

\* C7 (as stated): with S the sum of the 14 mapped percentages, a record
\* with S > 0 gets sum (pct / S) * points over the 14-entry map; a_pct=100
\* alone gives 4.0 and a_pct=50 with f_pct=50 gives 2.0.
C7_WeightedAverage14 ==
    GpaDone =>
        \A r \in 1..Len(df) :
            /\ SumS(r, SpecMapped) > 0 => IsWeightedAverage(r, SpecMapped)
            /\ ReportsExactly(r, {<<"a_pct", 100>>}) => df[r].gpa = <<4, 1>>
            /\ ReportsExactly(r, {<<"a_pct", 50>>, <<"f_pct", 50>>})
                   => df[r].gpa = <<2, 1>>

\* C7 (amended): the point map has a 15th entry, E = 0.0, and S is the sum
\* of the 15 mapped percentages; a record with S > 0 gets
\* sum (pct / S) * points over the 15 entries; a_pct=100 alone gives 4.0
\* and a_pct=50 with f_pct=50 gives 2.0.
C7_WeightedAverage15 ==
    GpaDone =>
        \A r \in 1..Len(df) :
            /\ SumS(r, SpecMapped \cup {"e_pct"}) > 0
                   => IsWeightedAverage(r, SpecMapped \cup {"e_pct"})
            /\ ReportsExactly(r, {<<"a_pct", 100>>}) => df[r].gpa = <<4, 1>>
            /\ ReportsExactly(r, {<<"a_pct", 50>>, <<"f_pct", 50>>})
                   => df[r].gpa = <<2, 1>>

C7_Witness ==
    /\ GpaDone
    /\ \E r \in 1..Len(df) :
          /\ ReportsExactly(r, {<<"a_minus_pct", 50>>, <<"e_pct", 50>>})
          /\ df[r].gpa = <<37, 20>>

\* Rows a and b hold the same cells in the columns cols
AgreeOn(a, b, cols) == \A c \in cols : df[a].pct[c] = df[b].pct[c]

\* C8 (as stated): two records that agree on the 14 mapped percentage
\* fields get the same gpa_estimate_normalized, whatever their other grade
\* columns hold.
C8_OnlyThe14Count ==
    GpaDone =>
        \A a, b \in 1..Len(df) :
            AgreeOn(a, b, SpecMapped) => df[a].gpa = df[b].gpa

\* C8 (amended): two records that agree on the 15 mapped percentage fields
\* (A+ .. D-, F, WF and E) get the same gpa_estimate_normalized, whatever
\* their other grade columns hold; e_pct is a mapped field worth 0.0 points.
C8_OnlyThe15Count ==
    GpaDone =>
        \A a, b \in 1..Len(df) :
            AgreeOn(a, b, SpecMapped \cup {"e_pct"}) => df[a].gpa = df[b].gpa

C8_Witness ==
    /\ GpaDone
    /\ \E a, b \in 1..Len(df) :
          /\ AgreeOn(a, b, SpecMapped \cup {"e_pct"})
          /\ Pct(a, "a_pct") = 50
          /\ Pct(a, "pass_pct") = 100
          /\ Pct(b, "pass_pct") = 0
          /\ df[a].gpa = <<4, 1>>
          /\ df[b].gpa = <<4, 1>>

\* The first record of the extract has its five identity fields
FirstRecordComplete == \A c \in IdentityCols : notna(raw[1].id[c])

\* The nearest record at or before r with a value in column c
Nearest(r, c) ==
    CHOOSE j \in 1..r :
        /\ notna(raw[j].id[c])
        /\ \A m \in (j + 1)..r : ~notna(raw[m].id[c])

\* C9: when the first record has all five identity fields, after the fill
\* every identity field of every record is non-null and is the nearest
\* preceding (or own) non-blank value of the field.
C9_ForwardFill ==
    (FillDone /\ FirstRecordComplete) =>
        /\ Len(df) = Len(raw)
        /\ \A r \in 1..Len(df) : \A c \in IdentityCols :
               /\ notna(df[r].id[c])
               /\ df[r].id[c] = raw[Nearest(r, c)].id[c]

C9_Witness ==
    /\ cpc = "written"
    /\ FirstRecordComplete
    /\ Len(raw) >= 3
    /\ \E c \in IdentityCols :
          /\ notna(raw[2].id[c])
          /\ ~notna(raw[3].id[c])
          /\ cleaned[3].id[c] = raw[2].id[c]
          /\ cleaned[3].id[c] # raw[1].id[c]

\* C10: the script writes no record whose identity field is null: a term
\* whose leading record misses an identity field fails instead.
C10_NoNullIdentityWritten ==
    cpc = "written" =>
        \A r \in 1..Len(cleaned) : \A c \in IdentityCols :
            notna(cleaned[r].id[c])


\* The loop of lines 74-75 has filled column k of columns_to_fill
Filled(k) == cpc # "fill" \/ col > k

\* C21: smart_forward_fill keeps the length and the order of the series,
\* leaves every non-missing value where it was, and applied to its own
\* output returns that output.
C21_FillKeepsAndIdempotent ==
    \A k \in 1..Len(columns_to_fill) :
        Filled(k) =>
            LET c      == columns_to_fill[k]
                before == Column(raw, c)
                after  == Column(df, c)
            IN  /\ Len(after) = Len(before)
                /\ \A r \in 1..Len(before) :
                       notna(before[r]) => after[r] = before[r]
                /\ smart_forward_fill(after) = after

\* A column with a leading missing cell, left missing, and a column with
\* two missing cells in a row under a value, both filled with it
C21_Witness ==
    /\ cpc = "written"
    /\ Len(raw) = 3
    /\ \E c \in IdentityCols :
          /\ ~notna(raw[1].id[c])
          /\ ~notna(df[1].id[c])
    /\ \E c \in IdentityCols :
          /\ notna(raw[1].id[c])
          /\ ~notna(raw[2].id[c])
          /\ ~notna(raw[3].id[c])
          /\ df[2].id[c] = raw[1].id[c]
          /\ df[3].id[c] = raw[1].id[c]


\* The text of a grade cell without its '%' and '<' marks
Stripped(val) ==
    SelectSeq(astype_str(val), LAMBDA ch : ch \notin {"%", "<"})

IsNumeral(s) == s # <<>> /\ \A k \in 1..Len(s) : s[k] \in {Digits[d] : d \in 1..10}

\* digits, a point and one digit
IsOneDecimal(s) ==
    /\ Len(s) >= 3
    /\ IsNumeral(SubSeq(s, 1, Len(s) - 2))
    /\ s[Len(s) - 1] = "."
    /\ IsNumeral(SubSeq(s, Len(s), Len(s)))

CoerceDone == cpc \in {"gpa", "write", "written"}

\* C11: after the coercion every grade cell is a number or null: "87%" is
\* 87, "<1%" is 1, a cell whose text without every '%' and '<' is a numeral
\* is that number, and every other cell ("", "N/A", a missing cell) is null,
\* never 0.
C11_PercentageCoercion ==
    CoerceDone =>
        \A r \in 1..Len(df) : \A c \in percentage_columns :
            LET cell == raw[r].pct[c]
                v    == df[r].pct[c]
            IN  /\ cell = JStr(<<"8", "7", "%">>) => v = JInt(87)
                /\ cell = JStr(<<"<", "1", "%">>) => v = JInt(1)
                /\ cell \in {JStr(<<>>), JStr(<<"N", "/", "A">>), JNull} => v = JNull
                /\ cell = JStr(<<"8", "7", ".", "5", "%">>) => v = JFloat(875)
                /\ IF cell # JNull /\ IsNumeral(Stripped(cell))
                   THEN v = JInt(DecimalValue(Stripped(cell)))
                   ELSE IF cell # JNull /\ IsOneDecimal(Stripped(cell))
                   THEN v.t = "float"
                   ELSE v = JNull

C11_Witness ==
    /\ cpc = "written"
    /\ \E c \in percentage_columns :
          /\ raw[1].pct[c] = JStr(<<"N", "/", "A">>)
          /\ cleaned[1].pct[c] = JNull



\* ------------------------------------------------------------------------
\* More properties of create_new_database
\* ------------------------------------------------------------------------
\* C14: the batch insert is all-or-nothing: a run that meets an error
\* commits none of its records, and a run that completes commits every
\* surviving record; the store never holds a non-empty strict subset.
C14_AllOrNothing ==
    /\ pc \in {"except", "failed"} => db.rows = <<>>
    /\ pc = "done" =>
          /\ Len(db.rows) = Len(records_to_insert)
          /\ \A k \in 1..Len(db.rows) : db.rows[k] = WithId(records_to_insert[k], k)

\* the first insert of the batch succeeded and a later one failed
C14_Witness ==
    /\ pc = "failed"
    /\ Len(records_to_insert) >= 2
    /\ NotNullOk(records_to_insert[1])
    /\ ~NotNullOk(records_to_insert[2])
    /\ db.rows = <<>>


\* What a reader finds of a store
StoreView(store) == [exists |-> store.exists, table |-> store.table, rows |-> store.rows]

\* C15: a query made during a run that completes met either the complete
\* store the previous run left or the complete store this run leaves.
C15_ReplacementAtomic ==
    (pc = "done" /\ observed.at # "never" /\ observed.run = runs) =>
        [exists |-> observed.exists, table |-> observed.table, rows |-> observed.rows]
            \in {StoreView(lastStore), StoreView(db)}


\* C16: every row of the grades table has a course_number that is an
\* integer greater than 0.
C16_CourseNumberPositive ==
    \A r \in 1..Len(db.rows) : db.rows[r].course_number > 0


\* C17: when all_cleanedgrades.json does not exist the function returns
\* without touching the store: an existing store file is neither deleted
\* nor modified and no store file is created.
C17_NoJsonNoTouch ==
    ~jsonExists =>
        /\ pc \in {"start", "nojson"}
        /\ db = lastStore
        /\ txn = <<>>
        /\ pc = "nojson" => out = << <<"json-not-found", 0>> >>

C17_Witness ==
    /\ ~jsonExists
    /\ pc = "nojson"
    /\ db = StaleStore


\* A tuple of the batch with no subject, no title or no academic period
NullRequired(t) == NULL \in {t.subject, t.title, t.academic_period}

NullSurvivor ==
    \E k \in 1..Len(records_to_insert) : NullRequired(records_to_insert[k])

\* The record at index k of the corpus is in the batch
InBatch(k) ==
    \E n \in 1..Len(records_to_insert) :
        records_to_insert[n] = RecordTuple(corpus[k], int(corpus[k].CourseNumber).v)

\* C18: only the course number is validated: a record with a valid course
\* number that is the first of its fingerprint goes into the batch and is
\* counted neither as invalid nor as duplicate, also when its subject, title
\* or academic period is null; a batch with such a record fails on NOT NULL
\* and the run ends with an empty grades table in place of the previous
\* store, and a batch without one is stored.
C18_OnlyCourseNumberValidated ==
    /\ pc \in {"insert", "summary", "commit", "done", "except", "failed"} =>
          /\ \A k \in ValidIndexes : FirstOfGroup(k) = k => InBatch(k)
          /\ skipped_invalid_count = Cardinality(InvalidIndexes)
          /\ skipped_duplicate_count =
                 Cardinality({ k \in ValidIndexes : FirstOfGroup(k) # k })
    /\ pc = "failed" =>
          /\ NullSurvivor
          /\ db = [exists |-> TRUE, table |-> TRUE, rows |-> <<>>, seq |-> 0]
          /\ Printed(<<"script-failed", 0>>)
    /\ pc = "done" => ~NullSurvivor

\* a run on a corpus with a record without subject, after a complete store
C18_Witness ==
    /\ pc = "failed"
    /\ lastStore = StaleStore
    /\ \E k \in 1..Len(records_to_insert) : records_to_insert[k].subject = NULL
    /\ db.rows = <<>>


\* Records j and k have the same subject, parsed course number and
\* academic period
SameSection(j, k) ==
    /\ corpus[j].Subject = corpus[k].Subject
    /\ int(corpus[j].CourseNumber).v = int(corpus[k].CourseNumber).v
    /\ corpus[j].AcademicPeriod = corpus[k].AcademicPeriod

\* The tuples of the batch made from a record of the section and
\* instructor of record k
BatchOf(k) ==
    { n \in 1..Len(records_to_insert) :
        LET t == records_to_insert[n]
        IN  /\ t.subject = corpus[k].Subject
            /\ t.course_number = int(corpus[k].CourseNumber).v
            /\ t.academic_period = corpus[k].AcademicPeriod
            /\ t.instructor = corpus[k].Instructor }

\* The earliest valid record of the section and instructor of record k
Earliest(k) ==
    CHOOSE j \in ValidIndexes :
        /\ SameSection(j, k) /\ corpus[j].Instructor = corpus[k].Instructor
        /\ \A m \in ValidIndexes :
               (SameSection(m, k) /\ corpus[m].Instructor = corpus[k].Instructor)
                   => j <= m

\* C19: valid records of one section that all have a null instructor are
\* duplicates of one another: the batch holds one tuple for them, made from
\* the earliest, a completed run stores one row for them, and the others
\* are counted as duplicates; a record with a null instructor and one with
\* an instructor are never duplicates of each other, each has its own tuple.
C19_NullInstructorIsKeyValue ==
    pc \in {"insert", "summary", "commit", "done", "except", "failed"} =>
        /\ \A k \in ValidIndexes :
              /\ Cardinality(BatchOf(k)) = 1
              /\ \A n \in BatchOf(k) :
                     records_to_insert[n].title = corpus[Earliest(k)].Title
              /\ pc = "done" =>
                     Cardinality({ r \in 1..Len(db.rows) :
                                     /\ db.rows[r].subject = corpus[k].Subject
                                     /\ db.rows[r].course_number = int(corpus[k].CourseNumber).v
                                     /\ db.rows[r].academic_period = corpus[k].AcademicPeriod
                                     /\ db.rows[r].instructor = corpus[k].Instructor }) = 1
        /\ skipped_duplicate_count =
               Cardinality({ k \in ValidIndexes : Earliest(k) # k })

\* two records without instructor and one with an instructor, all of one
\* section: two rows are stored
C19_Witness ==
    /\ pc = "done"
    /\ \E j, k, m \in ValidIndexes :
          /\ j < k
          /\ SameSection(j, k) /\ SameSection(j, m)
          /\ corpus[j].Instructor = NULL /\ corpus[k].Instructor = NULL
          /\ corpus[j].Title # corpus[k].Title
          /\ corpus[m].Instructor # NULL
    /\ Len(db.rows) = 2
    /\ skipped_duplicate_count = 1

\* ------------------------------------------------------------------------
\* Properties of CombineAllJSON.py
\* ------------------------------------------------------------------------
\* The records of files 1..n one after the other
RECURSIVE InFileOrder(_)
InFileOrder(n) ==
    IF n = 0 THEN <<>> ELSE InFileOrder(n - 1) \o files[n]

\* C12: the combined corpus is the per-term sequences appended in file
\* order 1..10, each in its own order, nothing dropped, duplicated, merged
\* or reordered; its length is the sum of the per-term lengths.
C12_PureConcatenation ==
    /\ apc \in {"loop", "write", "done"} =>
          combined_data = InFileOrder(file_i - 1)
    /\ apc = "done" =>
          /\ all_file.exists
          /\ all_file.data = InFileOrder(NumFiles)
          /\ Len(all_file.data) = TotalLen(files, NumFiles)

\* a record of one term appears again in a later term, and both are kept
C12_Witness ==
    /\ apc = "done"
    /\ \E a, b \in 1..NumFiles :
          /\ a < b
          /\ files[a] # <<>> /\ files[b] # <<>>
          /\ files[a][1] = files[b][1]
    /\ Len(all_file.data) = MaxAggRecords

\* The records of the readable files among 1..n one after the other
RECURSIVE ReadableInFileOrder(_)
ReadableInFileOrder(n) ==
    IF n = 0 THEN <<>>
    ELSE ReadableInFileOrder(n - 1) \o (IF Readable(files[n]) THEN files[n] ELSE <<>>)

\* C13: when a term's file is missing or unparseable the script still ends
\* with the combined corpus written, holding every record of every readable
\* term.
C13_FailuresIsolated ==
    apc \in {"done", "crashed"} =>
        /\ all_file.exists
        /\ all_file.data = ReadableInFileOrder(NumFiles)


\* ------------------------------------------------------------------------
\* Properties of the estimate in double precision
\* ------------------------------------------------------------------------
\* The float64 x times 2^120, a natural for every x >= 2^-120
Fixed(x) == IF x.m = <<>> THEN <<>> ELSE Shl(x.m, x.e + 120)

\* 4.0, and 2^-30, times 2^120
Four == Shl(<<1>>, 122)

Tolerance == Shl(<<1>>, 90)

\* |a - b| <= t
Within(a, b, t) ==
    IF Cmp(a, b) >= 0 THEN Cmp(Sub(a, b), t) <= 0 ELSE Cmp(Sub(b, a), t) <= 0

GpaDone64 == cpc = "write" /\ Len(df) = 2

\* C20 (as stated): gpa_estimate_normalized of a record whose mapped
\* percentages are null or not negative is in [0, 4.0], and it is the same
\* for the record with every mapped percentage multiplied by a positive
\* constant.
C20_RangeAndScaleExact ==
    GpaDone64 =>
        /\ \A r \in 1..2 : Cmp(Fixed(df[r].gpa), Four) <= 0
        /\ df[1].gpa = df[2].gpa

\* C20 (amended): the weighted average in real arithmetic is in [0, 4.0]
\* and the same for a record and the record with every mapped percentage
\* multiplied by a positive constant; gpa_estimate_normalized is that
\* number up to the rounding of the float64 operations: it differs from it
\* by less than 1e-9, so it is at most 4.0 + 1e-9 and a record and its
\* multiple differ by less than 1e-9.
C20_RangeAndScaleRounded ==
    GpaDone64 =>
        /\ \A r \in 1..2 :
              LET exact == GpaEstimate(df[r].pct)
              IN  /\ exact[1] >= 0 /\ exact[1] <= 4 * exact[2]
                  /\ Within(Mul(Fixed(df[r].gpa), FromInt(exact[2])),
                            Shl(FromInt(exact[1]), 120),
                            Mul(Tolerance, FromInt(exact[2])))
                  /\ Cmp(Fixed(df[r].gpa), Add(Four, Tolerance)) <= 0
        /\ GpaEstimate(df[1].pct) = GpaEstimate(df[2].pct)
        /\ Within(Fixed(df[1].gpa), Fixed(df[2].gpa), Tolerance)

\* a_plus_pct = 0.1 and a_pct = 4.3 give 4.000000000000001, and the record
\* with three times the shares gives another float64
C20_Witness ==
    /\ GpaDone64
    /\ Cmp(Fixed(df[1].gpa), Four) > 0
    /\ df[1].gpa # df[2].gpa

====
